---------------------------- MODULE Spec2Model ----------------------------
(***************************************************************************)
(* Symptom-risk visualisation backend: the symptom normaliser of the       *)
(* training pipeline (model.py), the inference encoder (encoding.py), the  *)
(* top-K ranker and the leave-one-out contribution analyser (predict.py)   *)
(* and the /predict handler (app.py).                                      *)
(*                                                                         *)
(* A Python string is a sequence of one-character strings over Alphabet.   *)
(* A JSON value that is not a string is the one-element sequence NonStr.   *)
(* A probability is an integer number of 1/PScale units.                   *)
(***************************************************************************)
EXTENDS Integers, Sequences, FiniteSets

VARIABLES
    pc,              \* position of the running operation
    symptom,         \* normaliser run: the raw input
    once,            \* normaliser run: normalize_symptom(symptom)
    twice,           \* normaliser run: normalize_symptom(once)
    clean_symptom,   \* normaliser run: the key computed by the encoder
    feature_map,     \* artifact: the ordered feature names (FeatureSpace)
    severity_dict,   \* artifact: canonical symptom name -> weight
    request_json,    \* the request body, a dict
    encoded,         \* encode_user_symptoms(request_json, ...)
    encoded_without, \* the same with one unknown entry left out
    left_out,        \* position of the entry left out
    train_row,       \* training's feature row for the same symptoms
    model,           \* artifact: the trained classifier
    k,               \* predict_top_k_from_json's k
    predictions,     \* predict_top_k_from_json's result
    data,            \* /predict: the parsed request body
    response,        \* /predict: the answer
    calls,           \* /predict: how often the core was entered
    baseline_vector, \* contributions: the encoded request
    baseline_probs,  \* contributions: the classifier's answer to it
    temp_vector,     \* contributions: the last perturbed vector
    ablated,         \* contributions: the dimension muted in temp_vector
    pred_i,          \* contributions: position in predictions
    sym_i,           \* contributions: position in selected_symptoms
    disease_scores,  \* contributions: the current disease's scores
    raw_impact_results, \* contributions: disease -> symptom -> score
    final_analysis   \* contributions: the result

artifacts == <<feature_map, severity_dict, model>>

rankVars == <<k, predictions>>

appVars == <<data, response, calls>>

loopVars == <<baseline_vector, baseline_probs, temp_vector, ablated, pred_i,
              sym_i, disease_scores, raw_impact_results, final_analysis>>

serveVars == <<appVars, loopVars>>

normVars == <<symptom, once, twice, clean_symptom>>

encVars == <<request_json, encoded, encoded_without, left_out, train_row>>

vars == <<pc, normVars, artifacts, encVars, rankVars, serveVars>>

(***************************************************************************)
(* Bounds of the model.                                                    *)
(***************************************************************************)
MaxLen == 3

MaxEntryLen == 2

MaxFeatures == 2

MaxSymptoms == 2

MaxWeight == 2

KMargin == 1

(***************************************************************************)
(* Strings.                                                                *)
(***************************************************************************)
Alphabet == {"a", "A", " ", "_"}

Whitespace == {" "}

NonStr == <<"<int>">>

None == <<"<None>">>

\* the variables of the /predict handler while no request is handled
Idle ==
    /\ data = None
    /\ response = None
    /\ calls = None
    /\ baseline_vector = None
    /\ baseline_probs = None
    /\ temp_vector = None
    /\ ablated = 0
    /\ pred_i = 0
    /\ sym_i = 0
    /\ disease_scores = None
    /\ raw_impact_results = None
    /\ final_analysis = None

StringsUpTo(len) == UNION {[1..n -> Alphabet] : n \in 0..len}

Strings == StringsUpTo(MaxLen)

IsStr(x) == \A i \in DOMAIN x : x[i] \in Alphabet

\* str.strip(): leading and trailing whitespace removed
RECURSIVE LStrip(_)
LStrip(s) ==
    IF s # <<>> /\ Head(s) \in Whitespace THEN LStrip(Tail(s)) ELSE s

RECURSIVE RStrip(_)
RStrip(s) ==
    IF s # <<>> /\ s[Len(s)] \in Whitespace
    THEN RStrip(SubSeq(s, 1, Len(s) - 1))
    ELSE s

Strip(s) == RStrip(LStrip(s))

\* str.lower()
Lower(s) == [i \in DOMAIN s |-> IF s[i] = "A" THEN "a" ELSE s[i]]

\* str.replace(old, new): one left-to-right pass over non-overlapping matches
RECURSIVE Replace(_, _, _)
Replace(s, old, new) ==
    IF Len(s) < Len(old) THEN s
    ELSE IF SubSeq(s, 1, Len(old)) = old
         THEN new \o Replace(SubSeq(s, Len(old) + 1, Len(s)), old, new)
         ELSE <<Head(s)>> \o Replace(Tail(s), old, new)

(***************************************************************************)
(* model.py: normalize_symptom                                             *)
(***************************************************************************)
normalize_symptom(s) ==
    IF ~IsStr(s) THEN <<>>
    ELSE Replace(Replace(Lower(Strip(s)), <<" ">>, <<"_">>),
                 <<"_", "_">>, <<"_">>)

(***************************************************************************)
(* encoding.py: the key encode_user_symptoms computes for one entry.       *)
(* A non-string entry has no strip attribute: the call raises.             *)
(***************************************************************************)
Raises(x) == ~IsStr(x)

EncoderClean(s) == Replace(Lower(Strip(s)), <<" ">>, <<"_">>)

(***************************************************************************)
(* Normaliser run: one raw string, normalised once, twice, and by the      *)
(* encoder.                                                                *)
(***************************************************************************)
InitNormalize ==
    /\ pc = "start"
    /\ symptom \in Strings
    /\ once = None
    /\ twice = None
    /\ clean_symptom = None
    /\ feature_map = None
    /\ severity_dict = None
    /\ model = None
    /\ k = 0
    /\ predictions = None
    /\ request_json = None
    /\ encoded = None
    /\ encoded_without = None
    /\ left_out = 0
    /\ train_row = None
    /\ Idle

NormalizeOnce ==
    /\ pc = "start"
    /\ once' = normalize_symptom(symptom)
    /\ pc' = "once"
    /\ UNCHANGED <<symptom, twice, clean_symptom, artifacts, encVars, rankVars,
                   serveVars>>

NormalizeTwice ==
    /\ pc = "once"
    /\ twice' = normalize_symptom(once)
    /\ pc' = "twice"
    /\ UNCHANGED <<symptom, once, clean_symptom, artifacts, encVars, rankVars,
                   serveVars>>

EncoderKey ==
    /\ pc = "twice"
    /\ clean_symptom' = EncoderClean(symptom)
    /\ pc' = "done"
    /\ UNCHANGED <<symptom, once, twice, artifacts, encVars, rankVars,
                   serveVars>>

NextNormalize == NormalizeOnce \/ NormalizeTwice \/ EncoderKey

SpecNormalize == InitNormalize /\ [][NextNormalize]_vars

\* C3: normalising an already normalised string changes nothing
C3_Idempotent == pc \in {"twice", "done"} => twice = once

\* C4: the encoder's key equals normalize_symptom's key for every string
C4_SameKey == pc = "done" => clean_symptom = once

(***************************************************************************)
(* Python's order on strings (code points) and sorted().                   *)
(***************************************************************************)
Ord(c) == CASE c = " " -> 32 [] c = "A" -> 65 [] c = "_" -> 95 [] OTHER -> 97

RECURSIVE StrLess(_, _)
StrLess(s, t) ==
    IF t = <<>> THEN FALSE
    ELSE IF s = <<>> THEN TRUE
    ELSE IF Head(s) # Head(t) THEN Ord(Head(s)) < Ord(Head(t))
    ELSE StrLess(Tail(s), Tail(t))

RECURSIVE Sorted(_)
Sorted(S) ==
    IF S = {} THEN <<>>
    ELSE LET least == CHOOSE x \in S : \A y \in S \ {x} : StrLess(x, y)
         IN  <<least>> \o Sorted(S \ {least})

Range(f) == {f[i] : i \in DOMAIN f}

Min(a, b) == IF a < b THEN a ELSE b

Max(a, b) == IF a > b THEN a ELSE b

\* a JSON list, and a JSON value of another type
List(items) == [type |-> "list", items |-> items]

NotAList == [type |-> "str", items |-> <<>>]

\* dict.get(key, default)
DictGet(d, key, default) == IF key \in DOMAIN d THEN d[key] ELSE default

(***************************************************************************)
(* model.py: the training pipeline's data contracts.                       *)
(***************************************************************************)
\* clean_dataset: every symptom cell is normalised
clean_dataset(cells) == {normalize_symptom(c) : c \in cells}

\* extract_all_symptoms: unique, sorted, without "" and "nan"
extract_all_symptoms(cells) == Sorted(cells \ {<<"n", "a", "n">>, <<>>})

\* feature_to_idx = {name: i for i, name in enumerate(feature_columns)}
FeatureToIdx(feature_columns) ==
    [name \in Range(feature_columns) |->
        CHOOSE i \in DOMAIN feature_columns :
            /\ feature_columns[i] = name
            /\ \A j \in DOMAIN feature_columns :
                   feature_columns[j] = name => j <= i]

\* build_feature_matrix: one row of X, from the row's cleaned cells in order
RECURSIVE BuildRow(_, _, _, _)
BuildRow(row, X, symptom_list, severity_lookup) ==
    IF row = <<>> THEN X
    ELSE LET cell == Head(row)
             idx == FeatureToIdx(symptom_list)
             X1 == IF cell \in Range(symptom_list)
                   THEN [X EXCEPT ![idx[cell]] = DictGet(severity_lookup, cell, 1)]
                   ELSE X
         IN  BuildRow(Tail(row), X1, symptom_list, severity_lookup)

build_feature_matrix(row, symptom_list, severity_lookup) ==
    BuildRow(row, [i \in DOMAIN symptom_list |-> 0], symptom_list, severity_lookup)

(***************************************************************************)
(* encoding.py: encode_user_symptoms.  The result is the vector, or the    *)
(* exception raised by symptom.strip() on a non-string entry.              *)
(***************************************************************************)
RECURSIVE EncodeLoop(_, _, _, _)
EncodeLoop(input_symptoms, vector, feature_columns, severity_lookup) ==
    IF input_symptoms = <<>> THEN [raised |-> FALSE, vector |-> vector]
    ELSE LET s == Head(input_symptoms)
             feature_to_idx == FeatureToIdx(feature_columns)
         IN  IF Raises(s) THEN [raised |-> TRUE, vector |-> <<>>]
             ELSE LET clean == EncoderClean(s)
                      v1 == IF clean \in DOMAIN feature_to_idx
                            THEN [vector EXCEPT ![feature_to_idx[clean]] =
                                      DictGet(severity_lookup, s, 1)]
                            ELSE vector
                  IN  EncodeLoop(Tail(input_symptoms), v1,
                                 feature_columns, severity_lookup)

encode_user_symptoms(req, feature_columns, severity_lookup) ==
    EncodeLoop(DictGet(req, "symptoms", List(<<>>)).items,
               [i \in DOMAIN feature_columns |-> 0],
               feature_columns, severity_lookup)

(***************************************************************************)
(* Encoder run: artifacts as training leaves them, one symptom list,       *)
(* encoded with and without one of its unknown entries, and the feature    *)
(* row training builds for the same symptoms.                              *)
(***************************************************************************)
Entries == StringsUpTo(MaxEntryLen) \cup {NonStr}

SeqsUpTo(S, n) == UNION {[1..m -> S] : m \in 0..n}

\* the feature maps training can save: sorted distinct cleaned cells
FeatureMaps ==
    {extract_all_symptoms(T) :
        T \in {U \in SUBSET clean_dataset(StringsUpTo(MaxEntryLen)) :
                  Cardinality(U \ {<<>>}) \in 1..MaxFeatures}}

\* the severity tables over the names of a feature map
SeverityTables(names) == UNION {[K -> 1..MaxWeight] : K \in SUBSET names}

Symptoms(req) == DictGet(req, "symptoms", List(<<>>)).items

Unknown(entry, feature_columns) ==
    normalize_symptom(entry) \notin Range(feature_columns)

Without(list, pos) == SubSeq(list, 1, pos - 1) \o SubSeq(list, pos + 1, Len(list))

InitEncode ==
    /\ pc = "start"
    /\ symptom = None /\ once = None /\ twice = None /\ clean_symptom = None
    /\ feature_map \in FeatureMaps
    /\ severity_dict \in SeverityTables(Range(feature_map))
    /\ model = None
    /\ k = 0
    /\ predictions = None
    /\ \E list \in SeqsUpTo(Entries, MaxSymptoms) :
           request_json = [key \in {"symptoms"} |-> List(list)]
    /\ encoded = None
    /\ encoded_without = None
    /\ left_out = 0
    /\ train_row = None
    /\ Idle

Encode ==
    /\ pc = "start"
    /\ encoded' = encode_user_symptoms(request_json, feature_map, severity_dict)
    /\ pc' = "encoded"
    /\ UNCHANGED <<normVars, artifacts, rankVars, serveVars, request_json,
                   encoded_without, left_out, train_row>>

\* training on a row holding the same raw cells (string cells only)
TrainRow ==
    /\ pc = "encoded"
    /\ LET cells == Symptoms(request_json)
           cleaned == [i \in DOMAIN cells |-> normalize_symptom(cells[i])]
       IN  train_row' = build_feature_matrix(cleaned, feature_map, severity_dict)
    /\ pc' = "trained"
    /\ UNCHANGED <<normVars, artifacts, rankVars, serveVars, request_json,
                   encoded, encoded_without, left_out>>

EncodeWithout ==
    /\ pc = "trained"
    /\ \E pos \in DOMAIN Symptoms(request_json) :
           /\ Unknown(Symptoms(request_json)[pos], feature_map)
           /\ left_out' = pos
           /\ encoded_without' =
                  encode_user_symptoms(
                      [key \in {"symptoms"} |->
                          List(Without(Symptoms(request_json), pos))],
                      feature_map, severity_dict)
    /\ pc' = "without"
    /\ UNCHANGED <<normVars, artifacts, rankVars, serveVars, request_json,
                   encoded, train_row>>

NextEncode == Encode \/ TrainRow \/ EncodeWithout

SpecEncode == InitEncode /\ [][NextEncode]_vars

\* C2: an unknown entry inserted into a symptom list that encodes without
\* error leaves the encoding unchanged and raises nothing
C2_UnknownIgnored ==
    (pc = "without" /\ ~encoded_without.raised)
        => (~encoded.raised /\ encoded.vector = encoded_without.vector)

\* C8: every request symptom whose normalised name is a feature gets, in the
\* encoded vector, the weight training writes for it in its feature row
C8_TrainingWeight ==
    (pc \in {"trained", "without"} /\ ~encoded.raised)
        => \A j \in DOMAIN Symptoms(request_json) :
               LET name == normalize_symptom(Symptoms(request_json)[j])
               IN  name \in Range(feature_map)
                       => encoded.vector[FeatureToIdx(feature_map)[name]]
                              = train_row[FeatureToIdx(feature_map)[name]]

(***************************************************************************)
(* The serving process's artifacts.  Training saw the cells of             *)
(* TrainingCells; a request holds entries of RequestEntries, raw           *)
(* spellings of the features, an unknown symptom and a non-string.         *)
(***************************************************************************)
TrainingCells == {<<" ", "a">>, <<"a", " ", "A">>}

RequestEntries == {<<"a">>, <<"A">>, <<"a", "_", "a">>, <<"_">>, NonStr}

TrainedFeatureMap == extract_all_symptoms(clean_dataset(TrainingCells))

\* model.classes_
Classes == <<"Allergy", "Flu", "GERD">>

(***************************************************************************)
(* The classifier is an artifact the code loads and only calls.  A model   *)
(* here is one of a family of deterministic classifiers: class c answers   *)
(* to the features in support[c], no feature or one, and its probability   *)
(* is its share of the total score of the vector, in units of 1/PScale.    *)
(***************************************************************************)
PScale == 10^7

Models ==
    {[classes_ |-> Classes, support |-> s] :
        s \in [DOMAIN Classes ->
                  {{}} \cup {{f} : f \in DOMAIN TrainedFeatureMap}]}

RECURSIVE SumOver(_, _)
SumOver(f, S) ==
    IF S = {} THEN 0
    ELSE LET x == CHOOSE x \in S : TRUE IN f[x] + SumOver(f, S \ {x})

ClassScore(m, vector, c) == 1 + SumOver(vector, m.support[c])

\* model.predict_proba([vector])[0]
predict_proba(m, vector) ==
    LET score == [c \in DOMAIN m.classes_ |-> ClassScore(m, vector, c)]
        total == SumOver(score, DOMAIN score)
    IN  [c \in DOMAIN m.classes_ |-> (score[c] * PScale) \div total]

(***************************************************************************)
(* round(x, digits) of a value num/den >= 0: the nearest multiple of        *)
(* 10^-digits, as a count of such multiples; an exact tie goes to the even *)
(* neighbour.                                                              *)
(***************************************************************************)
RECURSIVE ScaledDiv(_, _, _)
ScaledDiv(num, den, digits) ==
    IF digits = 0 THEN [q |-> num \div den, r |-> num % den]
    ELSE LET prev == ScaledDiv(num, den, digits - 1)
         IN  [q |-> prev.q * 10 + (prev.r * 10) \div den,
              r |-> (prev.r * 10) % den]

Round(num, den, digits) ==
    LET d == ScaledDiv(num, den, digits)
    IN  IF 2 * d.r < den THEN d.q
        ELSE IF 2 * d.r > den THEN d.q + 1
        ELSE IF d.q % 2 = 0 THEN d.q ELSE d.q + 1

(***************************************************************************)
(* predict.py: predict_top_k_from_json                                     *)
(***************************************************************************)
\* a sort that is not stable: of equal keys the last comes first
RECURSIVE SortedUnstable(_)
SortedUnstable(pairs) ==
    IF pairs = <<>> THEN <<>>
    ELSE LET first == CHOOSE i \in DOMAIN pairs :
                 \A j \in DOMAIN pairs :
                     \/ pairs[j].probability < pairs[i].probability
                     \/ pairs[j].probability = pairs[i].probability /\ j <= i
         IN  <<pairs[first]>> \o SortedUnstable(Without(pairs, first))

\* sorted(pairs, key=probability, reverse=True): stable, so equal keys keep
\* their order
RECURSIVE SortedByProbability(_)
SortedByProbability(pairs) ==
    IF pairs = <<>> THEN <<>>
    ELSE LET first == CHOOSE i \in DOMAIN pairs :
                 \A j \in DOMAIN pairs :
                     \/ pairs[j].probability < pairs[i].probability
                     \/ pairs[j].probability = pairs[i].probability /\ i <= j
         IN  <<pairs[first]>> \o SortedByProbability(Without(pairs, first))

\* seq[:k]
SliceTo(seq, stop) ==
    IF stop >= 0
    THEN SubSeq(seq, 1, IF stop < Len(seq) THEN stop ELSE Len(seq))
    ELSE SubSeq(seq, 1, Len(seq) + stop)

\* round(float(probability), 4), in units of 10^-4
RoundProbability(p) == Round(p, PScale, 4)

predict_top_k_from_json(m, req, feature_columns, severity_table, top) ==
    LET enc == encode_user_symptoms(req, feature_columns, severity_table)
    IN  IF enc.raised THEN [raised |-> TRUE, value |-> <<>>]
        ELSE LET probabilities == predict_proba(m, enc.vector)
                 disease_probs ==
                     SortedByProbability(
                         [c \in DOMAIN m.classes_ |->
                             [disease |-> m.classes_[c],
                              probability |-> probabilities[c]]])
                 cut == SliceTo(disease_probs, top)
             IN  [raised |-> FALSE,
                  value |-> [i \in DOMAIN cut |->
                                [disease |-> cut[i].disease,
                                 probability |->
                                     RoundProbability(cut[i].probability)]]]

(***************************************************************************)
(* Ranker run: one model, one symptom list, one k.                         *)
(***************************************************************************)
ServingSeverityTables == SeverityTables(Range(TrainedFeatureMap))

InitRank ==
    /\ pc = "start"
    /\ symptom = None /\ once = None /\ twice = None /\ clean_symptom = None
    /\ feature_map = TrainedFeatureMap
    /\ severity_dict \in [Range(TrainedFeatureMap) -> 1..MaxWeight]
    /\ model \in Models
    /\ k \in -KMargin..(Len(Classes) + KMargin)
    /\ predictions = None
    /\ \E list \in SeqsUpTo(RequestEntries \ {NonStr}, MaxSymptoms) :
           request_json = [key \in {"symptoms"} |-> List(list)]
    /\ encoded = None
    /\ encoded_without = None
    /\ left_out = 0
    /\ train_row = None
    /\ Idle

PredictTopK ==
    /\ pc = "start"
    /\ predictions' =
           predict_top_k_from_json(model, request_json, feature_map,
                                   severity_dict, k)
    /\ pc' = "ranked"
    /\ UNCHANGED <<normVars, artifacts, encVars, serveVars, k>>

NextRank == PredictTopK

SpecRank == InitRank /\ [][NextRank]_vars

ClassIndex(m, disease) == CHOOSE c \in DOMAIN m.classes_ : m.classes_[c] = disease

\* C5: the result holds exactly min(max(k, 0), n) predictions
C5_Length ==
    pc = "ranked"
        => Len(predictions.value) = Min(Max(k, 0), Len(model.classes_))

\* The probabilities the classifier gave for the request of the ranker run
RankedProbabilities ==
    predict_proba(model,
        encode_user_symptoms(request_json, feature_map, severity_dict).vector)

\* C9: the reported probabilities never increase along the result, and two
\* classes the classifier gave the same probability keep the order of
\* model.classes_
C9_Ranking ==
    pc = "ranked"
        => \A given \in {RankedProbabilities} :
               \A i, j \in DOMAIN predictions.value :
                   i < j =>
                       LET a == predictions.value[i]
                           b == predictions.value[j]
                           ca == ClassIndex(model, a.disease)
                           cb == ClassIndex(model, b.disease)
                       IN  /\ a.probability >= b.probability
                           /\ given[ca] >= given[cb]
                           /\ given[ca] = given[cb] => ca < cb

\* C9 witness: a result that lists two classes of equal probability
C9_Witness ==
    /\ pc = "ranked"
    /\ \E i, j \in DOMAIN predictions.value :
           /\ i < j
           /\ predictions.value[i].probability = predictions.value[j].probability
           /\ \E h \in DOMAIN predictions.value :
                  predictions.value[h].probability
                      # predictions.value[i].probability

(***************************************************************************)
(* predict.py: calculate_symptom_contributions, one leave-one-out          *)
(* experiment per step.                                                    *)
(***************************************************************************)
\* d[key] = value
DictSet(d, key, value) ==
    [x \in DOMAIN d \cup {key} |-> IF x = key THEN value ELSE d[x]]

EmptyDict == <<>>

\* disease_to_idx = {disease: idx for idx, disease in enumerate(classes)}
DiseaseToIdx(m) ==
    [disease \in Range(m.classes_) |->
        CHOOSE c \in DOMAIN m.classes_ :
            /\ m.classes_[c] = disease
            /\ \A j \in DOMAIN m.classes_ : m.classes_[j] = disease => j <= c]

\* temp_vector = baseline_vector; temp_vector[s_idx] = 0 (no copy: one list)
MuteAlias(baseline, s_idx) ==
    [baseline |-> [baseline EXCEPT ![s_idx] = 0],
     temp |-> [baseline EXCEPT ![s_idx] = 0]]

\* temp_vector = baseline_vector.copy(); temp_vector[s_idx] = 0
\* gives the two lists as they are after the assignment
MuteCopy(baseline, s_idx) ==
    [baseline |-> baseline, temp |-> [baseline EXCEPT ![s_idx] = 0]]

\* prob_drop * weight
ImpactScore(baseline_prob, new_prob, weight) ==
    Max(0, baseline_prob - new_prob) * weight

\* all_scores, as the set of its values
ScoresOf(results) ==
    UNION {{results[d][s] : s \in DOMAIN results[d]} : d \in DOMAIN results}

MaxOf(S) == CHOOSE x \in S : \A y \in S : y <= x

\* the maximum of one disease's scores only
HighestOfOneDisease(results) ==
    LET d == CHOOSE d \in DOMAIN results : TRUE
        scores == {results[d][s] : s \in DOMAIN results[d]}
    IN  IF scores = {} THEN 1 ELSE MaxOf(scores)

\* highest_impact = max(all_scores) if all_scores else 1
HighestImpact(results) ==
    IF ScoresOf(results) = {} THEN 1 ELSE MaxOf(ScoresOf(results))

\* one entry of final_analysis: raw in units of 10^-6, scaled in units of 10^-2
ContributionEntry(score, highest_impact) ==
    [raw |-> Round(score, PScale, 6),
     scaled |-> IF highest_impact > 0 THEN Round(score, highest_impact, 4) ELSE 0]

FinalAnalysis(results) ==
    [d \in DOMAIN results |->
        [s \in DOMAIN results[d] |->
            ContributionEntry(results[d][s], HighestImpact(results))]]

(***************************************************************************)
(* app.py: the /predict handler.                                           *)
(***************************************************************************)
TOP_K_PREDICTIONS == 5

\* request.get_json(silent=True): None, a JSON value that is no object, or
\* a dict
NoBody == [json |-> "none", truthy |-> FALSE, dict |-> EmptyDict]

ArrayBody(truthy) == [json |-> "array", truthy |-> truthy, dict |-> EmptyDict]

ObjectBody(d) == [json |-> "object", truthy |-> DOMAIN d # {}, dict |-> d]

Dicts ==
    {EmptyDict, [key \in {"other"} |-> NotAList],
     [key \in {"symptoms"} |-> NotAList]}
    \cup {[key \in {"symptoms"} |-> List(list)] :
              list \in SeqsUpTo(RequestEntries, MaxSymptoms)}

Bodies ==
    {NoBody, ArrayBody(FALSE), ArrayBody(TRUE)}
    \cup {ObjectBody(d) : d \in Dicts}

ErrorResponse(status) ==
    [status |-> status, predictions |-> <<>>, symptom_contributions |-> <<>>]

\* the symptoms the handler validates: data.get('symptoms', [])
RequestSymptoms(body) == DictGet(body.dict, "symptoms", List(<<>>))

\* not isinstance(symptoms, list) or not symptoms
InvalidSymptoms(symptoms) == symptoms.type # "list" \/ symptoms.items = <<>>

Init ==
    /\ pc = "received"
    /\ symptom = None /\ once = None /\ twice = None /\ clean_symptom = None
    /\ feature_map = TrainedFeatureMap
    /\ severity_dict \in ServingSeverityTables
    /\ model \in Models
    /\ k = TOP_K_PREDICTIONS
    /\ predictions = None
    /\ request_json = None
    /\ encoded = None
    /\ encoded_without = None
    /\ left_out = 0
    /\ train_row = None
    /\ data \in Bodies
    /\ response = None
    /\ calls = [top_k |-> 0, contributions |-> 0, predict_proba |-> 0]
    /\ baseline_vector = None
    /\ baseline_probs = None
    /\ temp_vector = None
    /\ ablated = 0
    /\ pred_i = 0
    /\ sym_i = 0
    /\ disease_scores = None
    /\ raw_impact_results = None
    /\ final_analysis = None

\* "if not data": answered 400
RejectBody ==
    /\ pc = "received"
    /\ ~data.truthy
    /\ response' = ErrorResponse(400)
    /\ pc' = "done"
    /\ UNCHANGED <<normVars, artifacts, encVars, rankVars, data, calls, loopVars>>

\* data.get on a body that is no dict raises outside the try block: the
\* framework answers the unhandled exception with 500
BodyNotADict ==
    /\ pc = "received"
    /\ data.truthy
    /\ data.json # "object"
    /\ response' = ErrorResponse(500)
    /\ pc' = "done"
    /\ UNCHANGED <<normVars, artifacts, encVars, rankVars, data, calls, loopVars>>

\* input validation: answered 400
RejectSymptoms ==
    /\ pc = "received"
    /\ data.truthy
    /\ data.json = "object"
    /\ InvalidSymptoms(RequestSymptoms(data))
    /\ response' = ErrorResponse(400)
    /\ pc' = "done"
    /\ UNCHANGED <<normVars, artifacts, encVars, rankVars, data, calls, loopVars>>

\* predict_top_k_from_json(model, data, feature_map, severity_dict, TOP_K);
\* an exception is answered 500
CallTopK ==
    /\ pc = "received"
    /\ data.truthy
    /\ data.json = "object"
    /\ ~InvalidSymptoms(RequestSymptoms(data))
    /\ LET r == predict_top_k_from_json(model, data.dict, feature_map,
                                        severity_dict, TOP_K_PREDICTIONS)
       IN  /\ predictions' = r
           /\ calls' = [calls EXCEPT !.top_k = @ + 1,
                                     !.predict_proba =
                                         IF r.raised THEN @ ELSE @ + 1]
           /\ IF r.raised
              THEN response' = ErrorResponse(500) /\ pc' = "done"
              ELSE response' = response /\ pc' = "contributions"
    /\ UNCHANGED <<normVars, artifacts, encVars, k, data, loopVars>>

\* calculate_symptom_contributions up to the loop: the baseline
Baseline ==
    /\ pc = "contributions"
    /\ LET enc == encode_user_symptoms(data.dict, feature_map, severity_dict)
       IN  /\ baseline_vector' = enc.vector
           /\ baseline_probs' = predict_proba(model, enc.vector)
    /\ calls' = [calls EXCEPT !.contributions = @ + 1, !.predict_proba = @ + 1]
    /\ raw_impact_results' =
           IF Symptoms(data.dict) = <<>>
           THEN [d \in {predictions.value[i].disease :
                           i \in DOMAIN predictions.value} |-> EmptyDict]
           ELSE EmptyDict
    /\ disease_scores' = EmptyDict
    /\ pred_i' = 1
    /\ sym_i' = 1
    /\ pc' = IF predictions.value = <<>> \/ Symptoms(data.dict) = <<>>
             THEN "scale" ELSE "loop"
    /\ UNCHANGED <<normVars, artifacts, encVars, rankVars, data, response,
                   temp_vector, ablated, final_analysis>>

\* the end of one pass of the inner loop: after the last symptom the
\* disease's scores are stored and the next disease begins
Advance(scores) ==
    LET disease == predictions.value[pred_i].disease
        last_symptom == sym_i = Len(Symptoms(data.dict))
        last_disease == pred_i = Len(predictions.value)
    IN  /\ sym_i' = IF last_symptom THEN 1 ELSE sym_i + 1
        /\ pred_i' = IF last_symptom THEN pred_i + 1 ELSE pred_i
        /\ disease_scores' = IF last_symptom THEN EmptyDict ELSE scores
        /\ raw_impact_results' =
               IF last_symptom
               THEN DictSet(raw_impact_results, disease, scores)
               ELSE raw_impact_results
        /\ pc' = IF last_symptom /\ last_disease THEN "scale" ELSE "loop"

\* "if symptom not in feature_to_idx: continue"
SkipSymptom ==
    /\ pc = "loop"
    /\ Symptoms(data.dict)[sym_i] \notin DOMAIN FeatureToIdx(feature_map)
    /\ Advance(disease_scores)
    /\ UNCHANGED <<normVars, artifacts, encVars, rankVars, appVars,
                   baseline_vector, baseline_probs, temp_vector, ablated,
                   final_analysis>>

\* the leave-one-out experiment for one disease and one symptom
LeaveOneOut ==
    /\ pc = "loop"
    /\ Symptoms(data.dict)[sym_i] \in DOMAIN FeatureToIdx(feature_map)
    /\ LET s == Symptoms(data.dict)[sym_i]
           disease == predictions.value[pred_i].disease
           d_idx == DiseaseToIdx(model)[disease]
           s_idx == FeatureToIdx(feature_map)[s]
           lists == MuteCopy(baseline_vector, s_idx)
           new_probs == predict_proba(model, lists.temp)
           weight == DictGet(severity_dict, s, 1)
           score == ImpactScore(baseline_probs[d_idx], new_probs[d_idx], weight)
       IN  /\ baseline_vector' = lists.baseline
           /\ temp_vector' = lists.temp
           /\ ablated' = s_idx
           /\ Advance(DictSet(disease_scores, s, score))
    /\ calls' = [calls EXCEPT !.predict_proba = @ + 1]
    /\ UNCHANGED <<normVars, artifacts, encVars, rankVars, data, response,
                   baseline_probs, final_analysis>>

\* the scaling, the return, and the handler's answer
ScaleAndRespond ==
    /\ pc = "scale"
    /\ final_analysis' = FinalAnalysis(raw_impact_results)
    /\ response' = [status |-> 200,
                    predictions |-> predictions.value,
                    symptom_contributions |-> final_analysis']
    /\ pc' = "done"
    /\ UNCHANGED <<normVars, artifacts, encVars, rankVars, data, calls,
                   baseline_vector, baseline_probs, temp_vector, ablated,
                   pred_i, sym_i, disease_scores, raw_impact_results>>

Next ==
    \/ RejectBody
    \/ BodyNotADict
    \/ RejectSymptoms
    \/ CallTopK
    \/ Baseline
    \/ SkipSymptom
    \/ LeaveOneOut
    \/ ScaleAndRespond

Spec == Init /\ [][Next]_vars

NoCoreCall == [top_k |-> 0, contributions |-> 0, predict_proba |-> 0]

\* C1: a request whose symptom list is absent, no list or empty is answered
\* 400, and the core (ranker, analyser, classifier) is never entered for it
C1_InvalidRejected ==
    InvalidSymptoms(RequestSymptoms(data))
        => /\ calls = NoCoreCall
           /\ pc = "done" => response.status = 400

Answered200 == pc = "done" /\ response.status = 200

\* C6: for every predicted disease the contribution map has an entry for
\* every input symptom the encoder recognised, whatever its raw spelling
C6_EveryRecognizedSymptom ==
    Answered200
        => \A i \in DOMAIN response.predictions :
               \A j \in DOMAIN Symptoms(data.dict) :
                   LET disease == response.predictions[i].disease
                       s == Symptoms(data.dict)[j]
                   IN  EncoderClean(s) \in Range(feature_map)
                           => \E key \in DOMAIN response.symptom_contributions[disease] :
                                  normalize_symptom(key) = normalize_symptom(s)

\* the (disease, symptom) pairs of a contribution map
Pairs(map) == UNION {{<<d, s>> : s \in DOMAIN map[d]} : d \in DOMAIN map}

\* C7: every entry has raw >= 0 and scaled in [0, 100]; every scaled score
\* is the raw score over the one maximum of all raw scores of the result;
\* a positive raw score gives some entry the scaled score 100, and raw
\* scores that are all 0 give every entry the scaled score 0
C7_Scores ==
    Answered200
        => LET fa == response.symptom_contributions
               raw_score(p) == raw_impact_results[p[1]][p[2]]
               entry(p) == fa[p[1]][p[2]]
               top == CHOOSE x \in {raw_score(p) : p \in Pairs(fa)} :
                          \A p \in Pairs(fa) : raw_score(p) <= x
           IN  /\ Pairs(fa) = Pairs(raw_impact_results)
               /\ \A p \in Pairs(fa) :
                      /\ raw_score(p) >= 0
                      /\ entry(p).raw >= 0
                      /\ entry(p).scaled >= 0
                      /\ entry(p).scaled <= 100 * 100
                      /\ top > 0 => entry(p).scaled = Round(raw_score(p), top, 4)
               /\ (\E p \in Pairs(fa) : raw_score(p) > 0)
                      => \E p \in Pairs(fa) : entry(p).scaled = 100 * 100
               /\ (\A p \in Pairs(fa) : raw_score(p) = 0)
                      => \A p \in Pairs(fa) : entry(p).scaled = 0

\* C7 witness: a result where one disease holds the entry scaled to 100 and
\* another disease an entry scaled strictly between 0 and 100, and a result
\* whose raw scores are all 0
C7_Witness ==
    /\ Answered200
    /\ \E p, q \in Pairs(response.symptom_contributions) :
           /\ p[1] # q[1]
           /\ response.symptom_contributions[p[1]][p[2]].scaled = 100 * 100
           /\ response.symptom_contributions[q[1]][q[2]].scaled > 0
           /\ response.symptom_contributions[q[1]][q[2]].scaled < 100 * 100
           /\ response.symptom_contributions[q[1]][q[2]].raw
                  > response.symptom_contributions[p[1]][q[2]].raw

InContributions == pc \in {"loop", "scale"} \/ Answered200

\* C10: during and after the leave-one-out loop the baseline vector is the
\* encoding of the request, and the last perturbed vector is the baseline
\* with the muted dimension 0 and every other dimension untouched
C10_Frame ==
    InContributions
        => /\ baseline_vector =
                  encode_user_symptoms(data.dict, feature_map, severity_dict).vector
           /\ ablated # 0
                  => temp_vector =
                         [i \in DOMAIN baseline_vector |->
                             IF i = ablated THEN 0 ELSE baseline_vector[i]]

\* C10 witness: both dimensions of the baseline are set, one was muted, then
\* the other
C10_Witness ==
    /\ pc = "loop"
    /\ ablated # 0
    /\ sym_i = 1
    /\ pred_i = 2
    /\ \A i \in DOMAIN baseline_vector : baseline_vector[i] > 0
    /\ Symptoms(data.dict)[1] # Symptoms(data.dict)[Len(Symptoms(data.dict))]
    /\ ablated = FeatureToIdx(feature_map)[Symptoms(data.dict)[Len(Symptoms(data.dict))]]

=============================================================================
